---- MODULE Spec2Model ----
(***************************************************************************)
(* Quiz backend (server.js): the express handlers over the three mongoose  *)
(* collections questions, wrongAnswers and solvedQuestions.                *)
(*                                                                         *)
(* Every handler is an async function; between two awaits other requests   *)
(* may run, so a handler with several store operations is one action per   *)
(* store operation.  A store operation may be rejected by the store        *)
(* (connection lost), which the handler's catch turns into a 500.          *)
(***************************************************************************)
EXTENDS Integers, Sequences, FiniteSets, TLC

\* ---------------------------------------------------------------- bounds
\* number of WrongAnswer documents ever inserted
MaxWrongId == 3
\* number of SolvedQuestion documents ever inserted
MaxSolvedId == 2
\* largest ?limit= query value
MaxLimit == 3

\* requests that may be in flight at the same time
Procs == {"r1", "r2"}

Users == {"u1", "u2"}
Categories == {"math", "science"}

\* ------------------------------------------------------- JSON/JS values
Undefined == [t |-> "undefined"]
Null == [t |-> "null"]
Str(s) == [t |-> "string", v |-> s]
Num(n) == [t |-> "number", v |-> n]

\* JavaScript ToBoolean, as used by the ! operator
Truthy(x) ==
    \/ x.t = "string" /\ x.v # ""
    \/ x.t = "number" /\ x.v # 0

\* ----------------------------------------------------------- ObjectIds
\* Documents of the three collections get the default _id, an ObjectId.
\* Wrong-answer ids 1, 2, ... stand for the ObjectIds the driver generates
\* (each new one differs from all earlier ones); MalformedId stands for any
\* string that is not 24 hex digits.
MalformedId == 0
WrongIdInputs == {MalformedId} \cup (1..MaxWrongId)

IsObjectId(id) == id # MalformedId

\* --------------------------------------------------- wrong-answer bodies
Texts == {"2+2=?", "3+3=?"}
Fields == {"userId", "category", "question", "correctAnswer", "userAnswer", "correctIndex"}
StringFields == Fields \ {"correctIndex"}

Body(u, c, q, ca, ua, ci) ==
    [userId |-> u, category |-> c, question |-> q,
     correctAnswer |-> ca, userAnswer |-> ua, correctIndex |-> ci]

ValidBodies ==
    {Body(Str(u), Str("math"), Str(q), Str("4"), Str("5"), Num(0)) : u \in Users, q \in Texts}
    \cup {Body(Str(u), Str("science"), Str(q), Str("6"), Str("7"), Num(1)) : u \in Users, q \in Texts}

BaseBody == Body(Str("u1"), Str("math"), Str("2+2=?"), Str("4"), Str("5"), Num(0))

Defects(f) ==
    IF f = "correctIndex" THEN {Undefined, Null} ELSE {Undefined, Null, Str("")}

DefectiveBodies ==
    {[BaseBody EXCEPT ![f] = d] : <<f, d>> \in {fd \in Fields \X {Undefined, Null, Str("")} : fd[2] \in Defects(fd[1])}}
    \cup {Body(Undefined, Undefined, Str("2+2=?"), Undefined, Undefined, Undefined)}

Bodies == ValidBodies \cup DefectiveBodies

VARIABLES wrongAnswers, solvedQuestions, nextWrongId, nextSolvedId, pc, loc, last

vars == <<wrongAnswers, solvedQuestions, nextWrongId, nextSolvedId, pc, loc, last>>

\* last describes the latest step: the response a handler sent (status 200,
\* 400, 404 or 500 and what the body tells), or Pending(op) when the step was
\* a store operation in the middle of a handler.
NoLoc == [op |-> "none"]
Response(op, status, error) == [op |-> op, status |-> status, error |-> error]
Pending(op) == Response(op, 0, "")

\* ------------------------------------------- POST /api/wrong-answers/save
\* if (!userId || !category || !question || !correctAnswer || !userAnswer
\*     || correctIndex === undefined)
RequiredFieldsMissing(b) ==
    \/ ~Truthy(b.userId)
    \/ ~Truthy(b.category)
    \/ ~Truthy(b.question)
    \/ ~Truthy(b.correctAnswer)
    \/ ~Truthy(b.userAnswer)
    \/ b.correctIndex = Undefined

\* wrongAnswerSchema: the five String paths and the Number path are required;
\* mongoose's required validator rejects undefined, null and, for strings, "".
SchemaValid(b) ==
    /\ \A f \in StringFields : b[f].t = "string" /\ b[f].v # ""
    /\ b.correctIndex.t = "number"

\* a filter that also asks for the category
MatchFilterLoose(r, b) ==
    r.userId = b.userId.v /\ r.question = b.question.v /\ r.category = b.category.v

\* the filter of WrongAnswer.deleteMany({ userId, question })
MatchFilter(r, b) == r.userId = b.userId.v /\ r.question = b.question.v

SameKey(a, b) == a.userId = b.userId /\ a.question = b.question

SavesInFlight == {q \in Procs : pc[q] = "save"}

\* new WrongAnswer({...}) with the generated _id
NewWrongAnswer(id, b) ==
    [_id |-> id, userId |-> b.userId.v, category |-> b.category.v,
     question |-> b.question.v, correctAnswer |-> b.correctAnswer.v,
     userAnswer |-> b.userAnswer.v, correctIndex |-> b.correctIndex.v]

\* an insert that replaces the records of the document's (userId, question)
InsertReplacingKey(doc) ==
    {r \in wrongAnswers : ~(r.userId = doc.userId /\ r.question = doc.question)} \cup {doc}

\* wrongAnswer.save() adds the document; nothing is unique but its _id
InsertWrongAnswer(doc) == wrongAnswers \cup {doc}

\* a handler that swallows the rejection of deleteMany and goes on to the insert
DeleteManyIgnored(p, b) ==
    /\ UNCHANGED wrongAnswers
    /\ pc' = [pc EXCEPT ![p] = "save"]
    /\ loc' = [loc EXCEPT ![p] = [op |-> "save", body |-> b, deletedCount |-> 0,
                                  overlapped |-> FALSE, racer |-> 0]]
    /\ last' = Pending("saveWrongAnswer")

\* `await WrongAnswer.deleteMany(...)` rejects: the throw leaves the try block
\* for the catch, which answers 500; the statements after the await never run
DeleteManyRejected(p, b) ==
    /\ last' = [op |-> "saveWrongAnswer", status |-> 500, error |-> "StoreError",
                failed |-> "deleteMany"]
    /\ UNCHANGED <<wrongAnswers, pc, loc>>

\* the handler up to the end of `await WrongAnswer.deleteMany(...)`
SaveWrongAnswer(p, b, storeOk) ==
    /\ pc[p] = "idle"
    /\ nextWrongId + Cardinality(SavesInFlight) <= MaxWrongId
    /\ UNCHANGED <<solvedQuestions, nextWrongId, nextSolvedId>>
    /\ IF RequiredFieldsMissing(b)
       THEN /\ last' = Response("saveWrongAnswer", 400, "Required fields missing")
            /\ UNCHANGED <<wrongAnswers, pc, loc>>
       ELSE IF ~storeOk
       THEN DeleteManyRejected(p, b)
       ELSE LET matched == {r \in wrongAnswers : MatchFilter(r, b)}
                others == {q \in SavesInFlight : SameKey(loc[q].body, b)}
            IN  /\ wrongAnswers' = wrongAnswers \ matched
                /\ pc' = [pc EXCEPT ![p] = "save"]
                /\ loc' = [q \in Procs |->
                            IF q = p
                            THEN [op |-> "save", body |-> b,
                                  deletedCount |-> Cardinality(matched),
                                  overlapped |-> others # {}, racer |-> 0]
                            ELSE IF q \in others
                            THEN [loc[q] EXCEPT !.overlapped = TRUE]
                            ELSE loc[q]]
                /\ last' = Pending("saveWrongAnswer")

\* the rest of the handler: `await wrongAnswer.save()` and the response
SaveWrongAnswerInsert(p, storeOk) ==
    /\ pc[p] = "save"
    /\ pc' = [pc EXCEPT ![p] = "idle"]
    /\ UNCHANGED <<solvedQuestions, nextSolvedId>>
    /\ LET b == loc[p].body IN
       IF ~SchemaValid(b)
       THEN /\ last' = Response("saveWrongAnswer", 500, "ValidationError")
            /\ loc' = [loc EXCEPT ![p] = NoLoc]
            /\ UNCHANGED <<wrongAnswers, nextWrongId>>
       ELSE IF ~storeOk
       THEN /\ last' = Response("saveWrongAnswer", 500, "StoreError")
            /\ loc' = [loc EXCEPT ![p] = NoLoc]
            /\ UNCHANGED <<wrongAnswers, nextWrongId>>
       ELSE /\ wrongAnswers' = InsertWrongAnswer(NewWrongAnswer(nextWrongId, b))
            /\ nextWrongId' = nextWrongId + 1
            /\ last' = [op |-> "saveWrongAnswer", status |-> 200, error |-> "",
                        id |-> nextWrongId, body |-> b,
                        deletedCount |-> loc[p].deletedCount,
                        overlapped |-> loc[p].overlapped, racer |-> loc[p].racer]
            /\ loc' = [q \in Procs |->
                        IF q = p THEN NoLoc
                        ELSE IF pc[q] = "save" /\ SameKey(loc[q].body, b) /\ loc[q].racer = 0
                        THEN [loc[q] EXCEPT !.racer = nextWrongId]
                        ELSE loc[q]]

\* --------------------------------- DELETE /api/wrong-answers/:wrongAnswerId
\* WrongAnswer.findByIdAndDelete(wrongAnswerId): the id is cast to the _id
\* path's type, ObjectId, before the store is asked; a string that is no
\* ObjectId makes the cast throw (CastError), which the catch answers with 500.
DeleteWrongAnswer(id, storeOk) ==
    /\ UNCHANGED <<solvedQuestions, nextWrongId, nextSolvedId, pc, loc>>
    /\ IF ~IsObjectId(id)
       THEN /\ last' = Response("deleteOne", 500, "CastError")
            /\ UNCHANGED wrongAnswers
       ELSE IF ~storeOk
       THEN /\ last' = Response("deleteOne", 500, "StoreError")
            /\ UNCHANGED wrongAnswers
       ELSE LET result == {r \in wrongAnswers : r._id = id} IN
            /\ wrongAnswers' = wrongAnswers \ result
            /\ last' = IF result # {}
                       THEN Response("deleteOne", 200, "")
                       ELSE Response("deleteOne", 404, "")

\* ------------------------------------------------ DELETE /api/users/:userId
\* a filter that matches every user
MatchUserAny(r, userId) == TRUE

\* the filter { userId } of deleteMany
MatchUser(r, userId) == r.userId = userId

\* a deleteOne in place of the deleteMany
DeleteOneOfUser(userId) ==
    IF \E r \in wrongAnswers : MatchUser(r, userId)
    THEN wrongAnswers \ {CHOOSE r \in wrongAnswers : MatchUser(r, userId)}
    ELSE wrongAnswers

\* WrongAnswer.deleteMany({ userId }): what is left of the collection
DeleteManyOfUser(userId) == {r \in wrongAnswers : ~MatchUser(r, userId)}

\* besides the response, the step's label tells how many documents the
\* store deleted and whether the step before was a successful purge of the
\* same user
PurgeResponse(userId, status, error, deletedCount) ==
    [op |-> "purgeUser", status |-> status, error |-> error, userId |-> userId,
     deletedCount |-> deletedCount,
     again |-> (last.op = "purgeUser" /\ last.status = 200 /\ last.userId = userId)]

DeleteUser(userId, storeOk) ==
    /\ UNCHANGED <<solvedQuestions, nextWrongId, nextSolvedId, pc, loc>>
    /\ IF ~storeOk
       THEN /\ last' = PurgeResponse(userId, 500, "StoreError", 0)
            /\ UNCHANGED wrongAnswers
       ELSE /\ wrongAnswers' = DeleteManyOfUser(userId)
            /\ last' = PurgeResponse(userId, 200, "",
                            Cardinality(wrongAnswers \ DeleteManyOfUser(userId)))

\* ------------------------------------------------------- question bank
\* The questions collection is seeded elsewhere and never written by the
\* handlers: two questions in "math", one in "science".
Quiz ==
    { [_id |-> "q1", category |-> "math", question |-> "2+2=?"],
      [_id |-> "q2", category |-> "math", question |-> "3+3=?"],
      [_id |-> "q3", category |-> "science", question |-> "H2O?"] }

QuestionIds == {q._id : q \in Quiz}

\* ------------------------------------ POST /api/solved-questions/save
\* request bodies: the client reports a category, a verdict and a time
SolvedBodies ==
    {[userId |-> u, questionId |-> q, category |-> a[1], isCorrect |-> a[2], timeSpent |-> a[3]] :
        u \in Users, q \in QuestionIds,
        a \in {<<"math", TRUE, 12>>, <<"math", FALSE, 5>>, <<"science", TRUE, 7>>}}

\* the filter { userId, questionId } of findOneAndUpdate
MatchSolved(r, b) == r.userId = b.userId /\ r.questionId = b.questionId

\* a collection without the unique index
NoUniqueIndex(b) == FALSE

\* solvedQuestionSchema.index({ userId: 1, questionId: 1 }, { unique: true }):
\* the store refuses to insert a second document with the same pair
DuplicateKey(b) == \E r \in solvedQuestions : MatchSolved(r, b)

\* the update document { category, isCorrect, timeSpent, solvedAt: new Date() };
\* solvedAt is a wall-clock reading and is left out of the documents
ApplyUpdate(r, b) ==
    [r EXCEPT !.category = b.category, !.isCorrect = b.isCorrect, !.timeSpent = b.timeSpent]

UpsertsInFlight == {q \in Procs : pc[q] = "upsert"}

\* besides the response, the step's label tells the request body and the
\* document the update replaced (Null when it replaced none)
SolvedResponse(b, status, error, before) ==
    [op |-> "recordSolved", status |-> status, error |-> error,
     body |-> b, before |-> before]

\* findOneAndUpdate finds a document and updates it in place
UpdateExisting(b) ==
    \E r \in solvedQuestions :
        /\ MatchSolved(r, b)
        /\ solvedQuestions' = (solvedQuestions \ {r}) \cup {ApplyUpdate(r, b)}
        /\ last' = SolvedResponse(b, 200, "", r)

\* findOneAndUpdate(..., { upsert: true, new: true }): the store looks for a
\* matching document; it updates the one it finds, and otherwise goes on to
\* insert one (SaveSolvedQuestionInsert)
SaveSolvedQuestion(p, b, storeOk) ==
    /\ pc[p] = "idle"
    /\ UNCHANGED <<wrongAnswers, nextWrongId, nextSolvedId>>
    /\ IF ~storeOk
       THEN /\ last' = SolvedResponse(b, 500, "StoreError", Null)
            /\ UNCHANGED <<solvedQuestions, pc, loc>>
       ELSE IF \E r \in solvedQuestions : MatchSolved(r, b)
       THEN /\ UpdateExisting(b)
            /\ UNCHANGED <<pc, loc>>
       ELSE /\ nextSolvedId + Cardinality(UpsertsInFlight) <= MaxSolvedId
            /\ pc' = [pc EXCEPT ![p] = "upsert"]
            /\ loc' = [loc EXCEPT ![p] = [op |-> "upsert", body |-> b]]
            /\ last' = Pending("recordSolved")
            /\ UNCHANGED solvedQuestions

\* the insert half of the upsert.  When another request has inserted the
\* pair meanwhile the unique index rejects the insert: the store either
\* retries the operation as an update or reports E11000 (500).
SaveSolvedQuestionInsert(p, retry, storeOk) ==
    /\ pc[p] = "upsert"
    /\ pc' = [pc EXCEPT ![p] = "idle"]
    /\ loc' = [loc EXCEPT ![p] = NoLoc]
    /\ UNCHANGED <<wrongAnswers, nextWrongId>>
    /\ LET b == loc[p].body IN
       IF ~storeOk
       THEN /\ last' = SolvedResponse(b, 500, "StoreError", Null)
            /\ UNCHANGED <<solvedQuestions, nextSolvedId>>
       ELSE IF DuplicateKey(b)
       THEN /\ UNCHANGED nextSolvedId
            /\ IF retry
               THEN UpdateExisting(b)
               ELSE /\ last' = SolvedResponse(b, 500, "E11000 duplicate key", Null)
                    /\ UNCHANGED solvedQuestions
       ELSE /\ solvedQuestions' = solvedQuestions \cup
                    {[_id |-> nextSolvedId, userId |-> b.userId, questionId |-> b.questionId,
                      category |-> b.category, isCorrect |-> b.isCorrect,
                      timeSpent |-> b.timeSpent]}
            /\ nextSolvedId' = nextSolvedId + 1
            /\ last' = SolvedResponse(b, 200, "", Null)

\* ------------------------- GET /api/questions/unsolved/:userId/:category
\* const { limit = 10 } = req.query
DefaultLimit == 10
LimitInputs == (1..MaxLimit) \cup {DefaultLimit}

RECURSIVE SetToSeq(_)
SetToSeq(S) ==
    IF S = {} THEN <<>>
    ELSE LET x == CHOOSE y \in S : TRUE IN <<x>> \o SetToSeq(S \ {x})

Min(a, b) == IF a < b THEN a ELSE b

Orders(n) == {f \in [1..n -> 1..n] : \A i, j \in 1..n : f[i] = f[j] => i = j}

\* a find that forgets the $nin filter
FindAllInCategory(category, solvedQuestionIds) ==
    {q._id : q \in {x \in Quiz : x.category = category}}

\* Quiz.find({ category, _id: { $nin: solvedQuestionIds } })
FindUnsolved(category, solvedQuestionIds) ==
    {q._id : q \in {x \in Quiz : x.category = category /\ x._id \notin solvedQuestionIds}}

\* Quiz.find({ category }).limit(n): the first n documents of the category in
\* the store's natural order, which the query does not fix
FindLimited(category, n) ==
    LET all == {q._id : q \in {x \in Quiz : x.category = category}}
    IN  {S \in SUBSET all : Cardinality(S) = Min(n, Cardinality(all))}

\* the handler up to the end of `await SolvedQuestion.find({ userId, category })`
GetUnsolved(p, userId, category, limit, storeOk) ==
    /\ pc[p] = "idle"
    /\ UNCHANGED <<wrongAnswers, solvedQuestions, nextWrongId, nextSolvedId>>
    /\ IF ~storeOk
       THEN /\ last' = [op |-> "unsolved", status |-> 500, error |-> "StoreError"]
            /\ UNCHANGED <<pc, loc>>
       ELSE /\ pc' = [pc EXCEPT ![p] = "select"]
            /\ loc' = [loc EXCEPT ![p] =
                        [op |-> "select", userId |-> userId, category |-> category,
                         limit |-> limit,
                         solvedQuestionIds |->
                            {r.questionId : r \in {x \in solvedQuestions :
                                x.userId = userId /\ x.category = category}}]]
            /\ last' = Pending("unsolved")

\* a top-up that takes the place of the unsolved questions
TopUpReplaces(unsolvedQuestions, additional, limit) ==
    IF Len(unsolvedQuestions) < limit
    THEN SetToSeq(additional)
    ELSE unsolvedQuestions

\* let finalQuestions = unsolvedQuestions;
\* if (unsolvedQuestions.length < limit)
\*     finalQuestions = [...unsolvedQuestions, ...additionalQuestions];
FinalQuestions(unsolvedQuestions, additional, limit) ==
    IF Len(unsolvedQuestions) < limit
    THEN unsolvedQuestions \o SetToSeq(additional)
    ELSE unsolvedQuestions

\* the two Quiz queries (the collection never changes, so they are one step),
\* the shuffle, the slice and the response
GetUnsolvedRespond(p, storeOk) ==
    /\ pc[p] = "select"
    /\ pc' = [pc EXCEPT ![p] = "idle"]
    /\ loc' = [loc EXCEPT ![p] = NoLoc]
    /\ UNCHANGED <<wrongAnswers, solvedQuestions, nextWrongId, nextSolvedId>>
    /\ IF ~storeOk
       THEN last' = [op |-> "unsolved", status |-> 500, error |-> "StoreError"]
       ELSE LET limit == loc[p].limit
                unsolvedQuestions == SetToSeq(FindUnsolved(loc[p].category, loc[p].solvedQuestionIds))
            IN  \E additional \in
                    IF Len(unsolvedQuestions) < limit
                    THEN FindLimited(loc[p].category, limit - Len(unsolvedQuestions))
                    ELSE {{}} :
                LET finalQuestions == FinalQuestions(unsolvedQuestions, additional, limit)
                    n == Len(finalQuestions)
                IN  \E order \in Orders(n) :
                        \* .sort(() => 0.5 - Math.random()).slice(0, limit)
                        LET sorted == [i \in 1..n |-> finalQuestions[order[i]]]
                            shuffled == SubSeq(sorted, 1, Min(limit, n))
                        IN  last' = [op |-> "unsolved", status |-> 200, error |-> "",
                                     userId |-> loc[p].userId, category |-> loc[p].category,
                                     limit |-> limit, shuffled |-> shuffled]

\* ------------------------------------------------ GET /api/stats/:userId
\* an aggregation without the $match stage
MatchStatsAny(r, userId) == TRUE

\* { $match: { userId } }
MatchStats(r, userId) == r.userId = userId

\* $group by category: one accumulator per _id, fed document by document;
\* avgTime is kept as the pair (sum, count) of the timeSpent values seen
RECURSIVE Group(_, _)
Group(docs, acc) ==
    IF docs = <<>> THEN acc
    ELSE LET d == Head(docs)
             old == IF d.category \in DOMAIN acc
                    THEN acc[d.category]
                    ELSE [_id |-> d.category, totalSolved |-> 0, correctCount |-> 0,
                          avgTime |-> [sum |-> 0, count |-> 0]]
             new == [_id |-> d.category,
                     totalSolved |-> old.totalSolved + 1,
                     correctCount |-> old.correctCount + (IF d.isCorrect THEN 1 ELSE 0),
                     avgTime |-> [sum |-> old.avgTime.sum + d.timeSpent,
                                  count |-> old.avgTime.count + 1]]
         IN  Group(Tail(docs),
                   [c \in (DOMAIN acc) \cup {d.category} |-> IF c = d.category THEN new ELSE acc[c]])

EmptyAcc == [c \in {} |-> 0]

Aggregate(userId) ==
    Group(SetToSeq({r \in solvedQuestions : MatchStats(r, userId)}), EmptyAcc)

GetStats(userId, storeOk) ==
    /\ UNCHANGED <<wrongAnswers, solvedQuestions, nextWrongId, nextSolvedId, pc, loc>>
    /\ IF ~storeOk
       THEN last' = [op |-> "stats", status |-> 500, error |-> "StoreError"]
       ELSE LET acc == Aggregate(userId)
                cats == SetToSeq(DOMAIN acc)
            IN  \E order \in Orders(Len(cats)) :
                    last' = [op |-> "stats", status |-> 200, error |-> "",
                             userId |-> userId,
                             stats |-> [i \in 1..Len(cats) |-> acc[cats[order[i]]]]]

Init ==
    /\ wrongAnswers = {}
    /\ solvedQuestions = {}
    /\ nextWrongId = 1
    /\ nextSolvedId = 1
    /\ pc = [p \in Procs |-> "idle"]
    /\ loc = [p \in Procs |-> NoLoc]
    /\ last = Response("none", 0, "")

ReviewActions(P) ==
    \/ \E p \in P, b \in Bodies, storeOk \in BOOLEAN : SaveWrongAnswer(p, b, storeOk)
    \/ \E p \in P, storeOk \in BOOLEAN : SaveWrongAnswerInsert(p, storeOk)
    \/ \E id \in WrongIdInputs, storeOk \in BOOLEAN : DeleteWrongAnswer(id, storeOk)
    \/ \E userId \in Users, storeOk \in BOOLEAN : DeleteUser(userId, storeOk)

SolvedActions(P, B) ==
    \/ \E p \in P, b \in B, storeOk \in BOOLEAN : SaveSolvedQuestion(p, b, storeOk)
    \/ \E p \in P, retry \in BOOLEAN, storeOk \in BOOLEAN : SaveSolvedQuestionInsert(p, retry, storeOk)

SelectActions(P) ==
    \/ \E p \in P, userId \in Users, category \in Categories, limit \in LimitInputs, storeOk \in BOOLEAN :
            GetUnsolved(p, userId, category, limit, storeOk)
    \/ \E p \in P, storeOk \in BOOLEAN : GetUnsolvedRespond(p, storeOk)

StatsActions ==
    \E userId \in Users, storeOk \in BOOLEAN : GetStats(userId, storeOk)

\* the whole server: any handler, any interleaving
Next ==
    \/ ReviewActions(Procs)
    \/ SolvedActions(Procs, SolvedBodies)
    \/ SelectActions(Procs)
    \/ StatsActions

Spec == Init /\ [][Next]_vars

\* ---------------------------------------------------------- components
\* The three groups of handlers share no collection they write, so each
\* group is explored on its own.

\* one client issuing request after request
Client == {"r1"}

\* solved-question stores the progress handlers produce, for the review
\* handlers to leave alone
SolvedSample ==
    { [_id |-> 1, userId |-> "u1", questionId |-> "q1", category |-> "math",
       isCorrect |-> TRUE, timeSpent |-> 12],
      [_id |-> 2, userId |-> "u2", questionId |-> "q3", category |-> "science",
       isCorrect |-> FALSE, timeSpent |-> 5] }

InitReview ==
    /\ wrongAnswers = {}
    /\ solvedQuestions = SolvedSample
    /\ nextWrongId = 1
    /\ nextSolvedId = 1 + Cardinality(solvedQuestions)
    /\ pc = [p \in Procs |-> "idle"]
    /\ loc = [p \in Procs |-> NoLoc]
    /\ last = Response("none", 0, "")

NextReview == ReviewActions(Procs)
SpecReview == InitReview /\ [][NextReview]_vars

NextSolved == SolvedActions(Procs, SolvedBodies)
SpecSolved == Init /\ [][NextSolved]_vars

\* the selection reads userId, questionId and category of the solved
\* records only, so its client reports correct answers throughout
NextSelect == SolvedActions(Client, {b \in SolvedBodies : b.isCorrect}) \/ SelectActions(Client)
SpecSelect == Init /\ [][NextSelect]_vars

NextStats == SolvedActions(Client, SolvedBodies) \/ StatsActions
SpecStats == Init /\ [][NextStats]_vars

\* ------------------------------------------------ review-list properties
WrongFor(userId, question) ==
    {r \in wrongAnswers : r.userId = userId /\ r.question = question}

WrongIds == {r._id : r \in wrongAnswers}

SaveSucceeded == last.op = "saveWrongAnswer" /\ last.status = 200

\* C3: a save that succeeded without overlapping another save for the same
\* (userId, question) leaves exactly one record for the pair, and the record
\* carries the call's category, correctAnswer, userAnswer and correctIndex,
\* however many records the pair had before.
SaveLeavesOneRecord ==
    (SaveSucceeded /\ ~last.overlapped) =>
        \E r \in wrongAnswers :
            /\ WrongFor(last.body.userId.v, last.body.question.v) = {r}
            /\ r._id = last.id
            /\ r.category = last.body.category.v
            /\ r.correctAnswer = last.body.correctAnswer.v
            /\ r.userAnswer = last.body.userAnswer.v
            /\ r.correctIndex = last.body.correctIndex.v

\* a save that found two records of its pair, replaced them by one
SaveReplacedDuplicates ==
    /\ SaveSucceeded
    /\ ~last.overlapped
    /\ last.deletedCount >= 2
    /\ Cardinality(WrongFor(last.body.userId.v, last.body.question.v)) = 1

\* C5: deleteOne on an id no record has answers 404, not 500, and leaves the
\* collection as it was (the store itself working).
DeleteAbsentIsNotFound ==
    [][\A id \in WrongIdInputs :
        (id \notin WrongIds /\ DeleteWrongAnswer(id, TRUE))
            => (last'.status = 404 /\ wrongAnswers' = wrongAnswers)]_vars

\* a value counts as provided when it is a number or a non-empty string
Provided(x) == x.t = "number" \/ (x.t = "string" /\ x.v # "")

\* C6: a save is answered 400, with no record deleted or inserted, exactly
\* when one of the six fields is missing.
SaveRejectedIffFieldMissing ==
    [][\A p \in Procs, b \in Bodies :
        SaveWrongAnswer(p, b, TRUE)
            => ((last'.status = 400 /\ wrongAnswers' = wrongAnswers)
                    <=> (\E f \in Fields : ~Provided(b[f])))]_vars

\* C7: a successful purge of u removes exactly u's wrong-answer records and
\* leaves the solved-question records alone.
PurgeRemovesOnlyUsersWrongAnswers ==
    [][(last'.op = "purgeUser" /\ last'.status = 200) =>
        /\ wrongAnswers' = {r \in wrongAnswers : r.userId # last'.userId}
        /\ solvedQuestions' = solvedQuestions]_vars

\* a purge deleted records of its user while another user has wrong answers
\* and the purged user has solved-question records
PurgedAmongOthers ==
    /\ last.op = "purgeUser" /\ last.status = 200 /\ last.deletedCount >= 1
    /\ \E r \in wrongAnswers : r.userId # last.userId
    /\ \E r \in solvedQuestions : r.userId = last.userId

\* C8: a purge of u right after a successful purge of u changes nothing and
\* succeeds (the store itself working).
PurgeIdempotent ==
    [][(/\ last.op = "purgeUser" /\ last.status = 200
        /\ last'.op = "purgeUser" /\ last'.userId = last.userId
        /\ last'.error # "StoreError") =>
            /\ last'.status = 200
            /\ wrongAnswers' = wrongAnswers
            /\ solvedQuestions' = solvedQuestions]_vars

\* the second of two purges of a user has answered, other records remaining
PurgedTwice ==
    /\ last.op = "purgeUser" /\ last.status = 200 /\ last.again
    /\ wrongAnswers # {}

\* C10: when a save completes after a concurrent save for the same pair has
\* inserted its record between this save's delete and insert, both records
\* are in the collection afterwards, with neither save in flight any more.
RaceLeavesDuplicate ==
    [][(/\ last'.op = "saveWrongAnswer" /\ last'.status = 200
        /\ last'.racer # 0
        /\ last'.racer \in WrongIds) =>
            LET after == {r \in wrongAnswers' :
                            /\ r.userId = last'.body.userId.v
                            /\ r.question = last'.body.question.v}
            IN  /\ {last'.racer, last'.id} \subseteq {r._id : r \in after}
                /\ Cardinality(after) = 2]_vars

\* both racing saves have completed and the pair has two records
DuplicateAfterRace ==
    /\ SaveSucceeded
    /\ last.racer # 0
    /\ Cardinality(WrongFor(last.body.userId.v, last.body.question.v)) = 2
    /\ \A p \in Procs : pc[p] = "idle"

\* the save handler of request p took its deleteMany step for a body that
\* passed the required-field check, and the store rejected the delete
DeleteStepFails(p, b) ==
    /\ ~RequiredFieldsMissing(b)
    /\ SaveWrongAnswer(p, b, FALSE)

\* C11 as stated: when the delete step of a save fails with a store error,
\* the request still goes on to its insert step.
InsertAttemptedAfterFailedDelete ==
    [][\A p \in Procs, b \in Bodies :
            DeleteStepFails(p, b) => pc'[p] = "save"]_vars

\* C11: when the delete step of a save fails with a store error, the request
\* ends there with status 500: its insert step is never taken, and no
\* wrong-answer record is removed or added.
FailedDeleteAbortsSave ==
    [][\A p \in Procs, b \in Bodies :
            DeleteStepFails(p, b) =>
                /\ pc'[p] = "idle"
                /\ last'.op = "saveWrongAnswer" /\ last'.status = 500
                /\ wrongAnswers' = wrongAnswers
                /\ nextWrongId' = nextWrongId]_vars

\* a save has just been refused at its delete step while the list held records
SaveRefusedAtDelete ==
    /\ last.op = "saveWrongAnswer" /\ last.status = 500
    /\ "failed" \in DOMAIN last
    /\ last.failed = "deleteMany"
    /\ wrongAnswers # {}

\* --------------------------------------------------- progress properties
SolvedFor(userId, questionId) ==
    {r \in solvedQuestions : r.userId = userId /\ r.questionId = questionId}

\* C4: no (userId, questionId) pair ever has two solved-question records,
\* however the saves interleave; and when a save has succeeded the pair's one
\* record holds that save's category, isCorrect and timeSpent.
OneSolvedRecordPerPair ==
    /\ \A u \in Users, q \in QuestionIds : Cardinality(SolvedFor(u, q)) <= 1
    /\ (last.op = "recordSolved" /\ last.status = 200) =>
            \E r \in solvedQuestions :
                /\ SolvedFor(last.body.userId, last.body.questionId) = {r}
                /\ r.category = last.body.category
                /\ r.isCorrect = last.body.isCorrect
                /\ r.timeSpent = last.body.timeSpent

\* a second save for a pair has replaced the first one's verdict and time
SolvedRecordOverwritten ==
    /\ last.op = "recordSolved" /\ last.status = 200
    /\ last.before # Null
    /\ last.before.isCorrect # last.body.isCorrect
    /\ last.before.timeSpent # last.body.timeSpent

CategoryIds(category) == {q._id : q \in {x \in Quiz : x.category = category}}

\* the questions the user has a solved record for under the category
SolvedIn(userId, category) ==
    {r.questionId : r \in {x \in solvedQuestions : x.userId = userId /\ x.category = category}}

\* N and k of the request the latest response answers
LastN == Cardinality(CategoryIds(last.category))
LastK == Cardinality(CategoryIds(last.category) \cap SolvedIn(last.userId, last.category))

Selected == last.op = "unsolved" /\ last.status = 200

\* C1: with k < N of the category's N questions solved, the selection
\* returns exactly min(limit, N) questions.
SelectionReturnsMinLimitN ==
    (Selected /\ LastK < LastN) => Len(last.shuffled) = Min(last.limit, LastN)

\* C2: with limit <= N - k, no returned question is one the user has a
\* solved record for under the category.
SelectionAvoidsSolved ==
    (Selected /\ last.limit <= LastN - LastK) =>
        \A i \in 1..Len(last.shuffled) :
            last.shuffled[i] \notin SolvedIn(last.userId, last.category)

\* a selection answered a user who has solved part of the category
SelectedAroundSolved ==
    /\ Selected
    /\ LastK >= 1
    /\ last.limit <= LastN - LastK
    /\ Len(last.shuffled) = last.limit

\* the unsolved pool of the request the latest response answers
LastPool == CategoryIds(last.category) \ SolvedIn(last.userId, last.category)

\* the questions of the latest response
LastReturned == {last.shuffled[i] : i \in 1..Len(last.shuffled)}

\* C12: a selection never returns more than limit entries, and when the
\* unsolved pool is smaller than limit every question of the pool is among
\* the returned ones: neither the top-up nor the slice displaces one.
SelectionKeepsUnsolvedPool ==
    Selected =>
        /\ Len(last.shuffled) <= last.limit
        /\ (Cardinality(LastPool) < last.limit => LastPool \subseteq LastReturned)

\* a selection topped up a non-empty unsolved pool smaller than limit, with
\* some solved question returned beside the pool
SelectedWithTopUp ==
    /\ Selected
    /\ LastPool # {}
    /\ Cardinality(LastPool) < last.limit
    /\ LastReturned \ LastPool # {}

\* C9: the stats of u hold one group per category of u's solved records, no
\* category twice, each group counting u's records of the category and those
\* of them that are correct.
StatsMatchRecords ==
    (last.op = "stats" /\ last.status = 200) =>
        LET mine == {r \in solvedQuestions : r.userId = last.userId}
            stats == last.stats
        IN  /\ \A i, j \in DOMAIN stats : stats[i]._id = stats[j]._id => i = j
            /\ {stats[i]._id : i \in DOMAIN stats} = {r.category : r \in mine}
            /\ \A i \in DOMAIN stats :
                /\ stats[i].totalSolved =
                      Cardinality({r \in mine : r.category = stats[i]._id})
                /\ stats[i].correctCount =
                      Cardinality({r \in mine : r.category = stats[i]._id /\ r.isCorrect})

\* stats answered with a group of two records, one of them correct
StatsCountedGroup ==
    /\ last.op = "stats" /\ last.status = 200
    /\ \E i \in DOMAIN last.stats :
        last.stats[i].totalSolved = 2 /\ last.stats[i].correctCount = 1

====
